---- MODULE Spec2Model ----
(***************************************************************************)
(* A model of the ping service's observability core: the process-wide      *)
(* metrics registry and the correlation-ID provider (package               *)
(* observability) and the request-instrumentation middleware (package      *)
(* middleware).                                                            *)
(*                                                                         *)
(* Nine specifications share the state:                                    *)
(*   SpecInit  goroutines calling InitMetrics and GetMetrics on a registry *)
(*             that starts uninitialized;                                  *)
(*   Spec      the serving process: the registry was initialized by main   *)
(*             before the server started, and request goroutines run the   *)
(*             middleware concurrently;                                    *)
(*   SpecReq   one request through the middleware, with every combination  *)
(*             of headers, content length, status codes and writes;        *)
(*   SpecUnit  one caller using RecordRequest and its token directly, as   *)
(*             the unit tests do;                                          *)
(*   SpecRecord  one caller using the recording operations of the other    *)
(*             families while a request passes through the middleware;     *)
(*   SpecCtx   one caller using the context helpers of the correlation-ID  *)
(*             provider;                                                   *)
(*   SpecIDs   concurrent requests with their own correlation IDs;         *)
(*   SpecMain  the process from its start: main initializes the registry,  *)
(*             reads PORT and listens, then the wrapped mux serves a       *)
(*             request for one of its paths;                               *)
(*   SpecCold  requests reaching the middleware before and after the       *)
(*             registry is initialized.                                    *)
(***************************************************************************)
EXTENDS Integers, Sequences, FiniteSets, TLC

\* ------------------------------------------------------------------ bounds

\* Goroutines that call InitMetrics / GetMetrics.
NumGo == 2
\* Calls each of them makes.
MaxCalls == 2
\* Concurrent request goroutines, one request each.
NumReqs == 2
\* Bytes a handler writes to its response at most.
MaxWritten == 1
\* Bytes a handler hands to Write at most, taken or not.
MaxOffered == 2
\* RecordRequest calls the direct caller makes.
MaxRecords == 10
\* Calls of the other recording operations the direct caller makes.
MaxOps == 2
\* Bytes one RecordFileProcess call reports at most.
MaxBytes == 2
\* IDs the direct caller attaches to its context, one over the other.
MaxAttach == 3

Goroutines == 1..NumGo
Reqs == 1..NumReqs

\* ---------------------------------------------------------------- registry

\* The fields of the Metrics struct.
MetricsFields ==
    { "RequestCounter", "RequestDuration", "RequestSize", "ResponseSize",
      "HTTPErrorCounter", "ActiveRequestsGauge",
      "BackgroundJobCounter", "BackgroundJobDuration", "BackgroundJobErrorCount",
      "APICallCounter", "APICallDuration", "APICallErrorCounter",
      "FileProcessCounter", "FileProcessDuration", "FileProcessBytesCounter",
      "FileProcessErrorCounter" }

\* The fields the struct literal of InitMetrics assigns.
LiteralFields ==
    { "RequestCounter", "RequestDuration", "RequestSize", "ResponseSize",
      "HTTPErrorCounter", "ActiveRequestsGauge",
      "BackgroundJobCounter", "BackgroundJobDuration", "BackgroundJobErrorCount",
      "APICallCounter", "APICallDuration", "APICallErrorCounter",
      "FileProcessCounter", "FileProcessDuration", "FileProcessBytesCounter",
      "FileProcessErrorCounter" }

\* A freshly constructed instrument set: every assigned instrument at zero
\* (a counter's or gauge's value, a histogram's sample count).
NewMetrics == [f \in LiteralFields |-> 0]

\* The Metrics struct before construction: no instrument exists.
NoMetrics == [f \in {} |-> 0]

VARIABLES
    metricsInstance,   \* the package variable: FALSE is nil, TRUE the instance
    onceDone,          \* sync.Once: its done flag
    onceLock,          \* sync.Once: the goroutine holding its mutex, 0 if free
    constructions,     \* how often the function given to once.Do has run
    metrics,           \* the instruments of the instance, by field
    gpc,               \* goroutine -> where it is in its current call
    gcalls,            \* goroutine -> calls it has started
    gkind,             \* goroutine -> its last call: "none", "init" or "get"
    gres,              \* goroutine -> what its last call gave
    gsynced,           \* goroutine -> it has returned from InitMetrics
    rq,                \* request -> the middleware invocation's locals
    unit,              \* the direct caller of the recording operations
    proc               \* the process: its PORT variable, its listening address

vars ==
    << metricsInstance, onceDone, onceLock, constructions, metrics,
       gpc, gcalls, gkind, gres, gsynced, rq, unit, proc >>

registryVars == << metricsInstance, onceDone, onceLock, constructions >>
goVars == << gpc, gcalls, gkind, gres, gsynced >>

\* ------------------------------------------------------------- InitMetrics

\* A sync.Once that runs its function on every call.
OnceAlwaysRuns(done) == TRUE

\* once.Do runs the function only while the done flag is unset.
OnceMustRun(done) == ~done

\* InitMetrics is called: once.Do's fast path reads the done flag.
InitCall(g) ==
    /\ gpc[g] = "idle"
    /\ gcalls[g] < MaxCalls
    /\ gcalls' = [gcalls EXCEPT ![g] = @ + 1]
    /\ gkind' = [gkind EXCEPT ![g] = "init"]
    /\ gres' = [gres EXCEPT ![g] = "none"]
    /\ gpc' = [gpc EXCEPT ![g] = IF OnceMustRun(onceDone) THEN "lock" ELSE "ret"]
    /\ UNCHANGED << registryVars, metrics, gsynced, rq, unit, proc >>

\* once.Do's slow path takes the mutex.
OnceLock(g) ==
    /\ gpc[g] = "lock"
    /\ onceLock = 0
    /\ onceLock' = g
    /\ gpc' = [gpc EXCEPT ![g] = "slow"]
    /\ UNCHANGED << metricsInstance, onceDone, constructions, metrics,
                    gcalls, gkind, gres, gsynced, rq, unit, proc >>

\* Under the mutex the done flag is read again; if still unset the function
\* runs: it builds the struct, promauto registering each collector. A second
\* registration of the same collectors panics.
OnceSlow(g) ==
    /\ gpc[g] = "slow"
    /\ IF OnceMustRun(onceDone)
       THEN /\ constructions' = constructions + 1
            /\ IF constructions = 0
               THEN /\ metrics' = NewMetrics
                    /\ gpc' = [gpc EXCEPT ![g] = "store"]
                    /\ gres' = gres
               ELSE /\ metrics' = metrics
                    /\ gpc' = [gpc EXCEPT ![g] = "setDone"]
                    /\ gres' = [gres EXCEPT ![g] = "panic"]
       ELSE /\ gpc' = [gpc EXCEPT ![g] = "unlock"]
            /\ UNCHANGED << constructions, metrics, gres >>
    /\ UNCHANGED << metricsInstance, onceDone, onceLock,
                    gcalls, gkind, gsynced, rq, unit, proc >>

\* metricsInstance = &Metrics{...}
StoreInstance(g) ==
    /\ gpc[g] = "store"
    /\ metricsInstance' = TRUE
    /\ gpc' = [gpc EXCEPT ![g] = "setDone"]
    /\ UNCHANGED << onceDone, onceLock, constructions, metrics,
                    gcalls, gkind, gres, gsynced, rq, unit, proc >>

\* The deferred done.Store(1), which also runs when the function panicked.
OnceSetDone(g) ==
    /\ gpc[g] = "setDone"
    /\ onceDone' = TRUE
    /\ gpc' = [gpc EXCEPT ![g] = "unlock"]
    /\ UNCHANGED << metricsInstance, onceLock, constructions, metrics,
                    gcalls, gkind, gres, gsynced, rq, unit, proc >>

\* The deferred Unlock; a panic of the function goes on to the caller.
OnceUnlock(g) ==
    /\ gpc[g] = "unlock"
    /\ onceLock' = 0
    /\ gpc' = [gpc EXCEPT ![g] = IF gres[g] = "panic" THEN "idle" ELSE "ret"]
    /\ UNCHANGED << metricsInstance, onceDone, constructions, metrics,
                    gcalls, gkind, gres, gsynced, rq, unit, proc >>

\* return metricsInstance: read after once.Do, which orders it after the store.
InitReturn(g) ==
    /\ gpc[g] = "ret"
    /\ gres' = [gres EXCEPT ![g] = IF metricsInstance THEN "instance" ELSE "nil"]
    /\ gsynced' = [gsynced EXCEPT ![g] = TRUE]
    /\ gpc' = [gpc EXCEPT ![g] = "idle"]
    /\ UNCHANGED << registryVars, metrics, gcalls, gkind, rq, unit, proc >>

\* -------------------------------------------------------------- GetMetrics

\* GetMetrics reads metricsInstance with no synchronization. A goroutine that
\* returned from InitMetrics, or that reads after once.Do's done flag was
\* stored, sees the instance whole. A read that races with the running
\* function may see nil although the pointer is stored, or the pointer before
\* the struct's fields.
GetOutcomes(g) ==
    IF ~metricsInstance THEN {"panic"}
    ELSE IF gsynced[g] \/ onceDone THEN {"instance"}
    ELSE {"panic", "partial", "instance"}

\* One call of GetMetrics: it panics when it reads nil, and else returns what
\* it read. It writes nothing.
GetMetricsCall(g) ==
    /\ gpc[g] = "idle"
    /\ gcalls[g] < MaxCalls
    /\ gcalls' = [gcalls EXCEPT ![g] = @ + 1]
    /\ gkind' = [gkind EXCEPT ![g] = "get"]
    /\ \E o \in GetOutcomes(g) : gres' = [gres EXCEPT ![g] = o]
    /\ UNCHANGED << registryVars, metrics, gpc, gsynced, rq, unit, proc >>

\* ---------------------------------------------------------- correlation ID

\* What uuid.New can draw, as far as the model follows it.
NumEntropy == 2
Entropy == 1..NumEntropy

\* GenerateCorrelationID: the string form of a UUID made of random bits e.
GenerateCorrelationID(e) == "uuid-" \o ToString(e)

IsGenerated(id) == \E e \in Entropy : id = GenerateCorrelationID(e)

\* A context is modelled by the values attached under the key CorrelationID,
\* the latest last; context.Background() carries none.
Background == << >>

\* An attach that forgets the id.
WithCorrelationIDDropped(ctx, id) == ctx

\* WithCorrelationID: a new context carrying id over ctx.
WithCorrelationID(ctx, id) == Append(ctx, id)

\* A lookup that finds the ID attached first.
GetCorrelationIDFirst(ctx) == IF Len(ctx) = 0 THEN "" ELSE ctx[1]

\* GetCorrelationID: the latest attached string, "" if there is none.
GetCorrelationID(ctx) == IF Len(ctx) = 0 THEN "" ELSE ctx[Len(ctx)]

\* A lookup that takes an empty ID for an ID.
GetOrCreateKeepsEmpty(ctx, e) ==
    IF Len(ctx) > 0 THEN ctx[Len(ctx)] ELSE GenerateCorrelationID(e)

\* GetOrCreateCorrelationID: the string under the key if there is one and it
\* is not empty, a generated ID otherwise.
GetOrCreateCorrelationID(ctx, e) ==
    IF Len(ctx) > 0 /\ ctx[Len(ctx)] # ""
    THEN ctx[Len(ctx)]
    ELSE GenerateCorrelationID(e)

\* A choice that takes X-Correlation-ID as it is, empty or not.
DetermineWithoutGeneration(requestID, correlationID, generated) ==
    IF requestID # "" THEN requestID ELSE correlationID

\* The secondary header winning over the primary one.
CorrelationHeaderFirst(requestID, correlationID, generated) ==
    IF correlationID # "" THEN correlationID
    ELSE IF requestID # "" THEN requestID
    ELSE generated

\* The middleware's choice: X-Request-ID, else X-Correlation-ID, else a
\* generated ID. Header.Get gives "" for an absent header as for an empty one.
DetermineCorrelationID(requestID, correlationID, generated) ==
    IF requestID # "" THEN requestID
    ELSE IF correlationID # "" THEN correlationID
    ELSE generated

\* ------------------------------------------------------------- instruments

\* A counter that loses every increment after the first.
CounterIncLost(v) == IF v >= 1 THEN v ELSE v + 1

\* Counter.Inc, one atomic step of the client library.
CounterInc(v) == v + 1

\* A completion token invoked at once instead of deferred: the gauge goes up
\* and down again before the handler runs.
GaugeIncReleased(v) == v

\* Gauge.Inc
GaugeInc(v) == v + 1

\* A completion token that does nothing.
GaugeDecNoop(v) == v

\* Gauge.Dec
GaugeDec(v) == v - 1

\* An observation entered twice.
HistogramObserveTwice(count) == count + 2

\* A counter set to the value it is given.
CounterSet(v, x) == x

\* Counter.Add of a value that is not negative.
CounterAdd(v, x) == v + x

\* Histogram.Observe, followed by its sample count.
HistogramObserve(count) == count + 1

\* -------------------------------------------------------------- middleware

StatusOK == 200
StatusInternalServerError == 500

\* An error check that misses 500 itself.
AboveServerError(statusCode) == statusCode > StatusInternalServerError

\* The middleware counts a response as an HTTP error from 500 on.
IsServerError(statusCode) == statusCode >= StatusInternalServerError

\* A wrapper made with the status of a failure.
NewWriterStatusError == StatusInternalServerError

\* Line 66: the wrapper is made with statusCode: http.StatusOK.
NewWriterStatus == StatusOK

\* responseWriter.WriteHeader keeps the code it is given.
CaptureStatus(statusCode, code) == code

\* The underlying writer sends the first status code only; a Write before any
\* WriteHeader sends 200.
UnderlyingWriteHeader(sent, code) == IF sent = 0 THEN code ELSE sent

\* The status the client receives: 200 when the handler never wrote one.
ResponseStatus(sent) == IF sent = 0 THEN StatusOK ELSE sent

\* A request goroutine before its request arrives.
NoRequest ==
    [ pc |-> "start", requestID |-> "", correlationHeader |-> "",
      contentLength |-> 0 - 1, correlationID |-> "", ctx |-> Background,
      responseHeader |-> "", statusCode |-> 0, written |-> 0, sent |-> 0,
      panicking |-> FALSE, invoked |-> 0, logs |-> 0, firstCode |-> 0,
      offered |-> 0, taken |-> 0, observed |-> 0 - 1,
      path |-> "", contentType |-> "", body |-> {} ]

\* A registry that does nothing while uninitialized: the middleware goes on
\* to the inner handler without recording.
AfterGetMetricsSkip(instance) == IF instance THEN "record" ELSE "handler"

\* Line 57: GetMetrics gives the instance, or panics when there is none;
\* nothing has been deferred by then, so the panic ends the middleware.
AfterGetMetrics(instance) == IF instance THEN "record" ELSE "aborted"

\* Lines 41-58: the correlation ID is chosen, attached to the request's
\* context and set on the response; then GetMetrics is called, which panics
\* on an uninitialized registry before anything is deferred.
Begin(r, requestID, correlationHeader, contentLength, e) ==
    /\ rq[r].pc = "start"
    /\ LET id == DetermineCorrelationID(requestID, correlationHeader,
                                        GenerateCorrelationID(e))
       IN  rq' = [rq EXCEPT ![r] =
                    [ @ EXCEPT !.requestID = requestID,
                               !.correlationHeader = correlationHeader,
                               !.contentLength = contentLength,
                               !.correlationID = id,
                               !.ctx = WithCorrelationID(Background, id),
                               !.responseHeader = id,
                               !.statusCode = NewWriterStatus,
                               !.panicking =
                                    (AfterGetMetrics(metricsInstance) = "aborted"),
                               !.pc = AfterGetMetrics(metricsInstance) ]]
    /\ UNCHANGED << registryVars, metrics, goVars, unit, proc >>

\* RecordRequest, first half: m.RequestCounter.Inc()
RecordRequestCounter(r) ==
    /\ rq[r].pc = "record"
    /\ metrics' = [metrics EXCEPT !.RequestCounter = CounterInc(@)]
    /\ rq' = [rq EXCEPT ![r].pc = "recordGauge"]
    /\ UNCHANGED << registryVars, goVars, unit, proc >>

\* RecordRequest, second half: m.ActiveRequestsGauge.Inc(); the token it
\* returns is deferred.
RecordRequestGauge(r) ==
    /\ rq[r].pc = "recordGauge"
    /\ metrics' = [metrics EXCEPT !.ActiveRequestsGauge = GaugeInc(@)]
    /\ rq' = [rq EXCEPT ![r].pc = "requestSize"]
    /\ UNCHANGED << registryVars, goVars, unit, proc >>

\* A size check that takes an empty body for a body.
HasKnownLength(contentLength) == contentLength >= 0

\* Line 71: only a positive content length is observed; 0 is no body, -1 an
\* unknown length.
HasBody(contentLength) == contentLength > 0

\* Lines 63-84: the wrapper is made, a positive content length is observed,
\* the start of the request is logged and the inner handler is called.
ObserveRequestSize(r) ==
    /\ rq[r].pc = "requestSize"
    /\ metrics' = IF HasBody(rq[r].contentLength)
                  THEN [metrics EXCEPT !.RequestSize = HistogramObserve(@)]
                  ELSE metrics
    /\ rq' = [rq EXCEPT ![r] = [ @ EXCEPT !.logs = @ + 1,
                                          !.invoked = @ + 1,
                                          !.pc = "handler" ]]
    /\ UNCHANGED << registryVars, goVars, unit, proc >>

\* The inner handler calls WriteHeader(code) on the wrapper; firstCode keeps
\* the code of the handler's first call.
HandlerWriteHeader(r, code) ==
    /\ rq[r].pc = "handler"
    /\ rq' = [rq EXCEPT ![r] =
                [ @ EXCEPT !.statusCode = CaptureStatus(@, code),
                           !.firstCode = IF @ = 0 THEN code ELSE @,
                           !.sent = UnderlyingWriteHeader(@, code) ]]
    /\ UNCHANGED << registryVars, metrics, goVars, unit, proc >>

\* A wrapper that counts the bytes it was given instead of the bytes the
\* underlying writer took.
CountOffered(written, b, n) == written + b

\* Line 29: rw.written += int64(n), n being what the underlying writer
\* returned.
CountWritten(written, b, n) == written + n

\* The inner handler calls Write with b bytes; the wrapper hands them to the
\* underlying writer, which takes n of them (n < b with an error), and
\* returns that n. offered and taken are the underlying writer's totals.
HandlerWrite(r, b, n) ==
    /\ rq[r].pc = "handler"
    /\ n <= b
    /\ rq[r].written + n <= MaxWritten
    /\ rq[r].offered + b <= MaxOffered
    /\ rq' = [rq EXCEPT ![r] =
                [ @ EXCEPT !.written = CountWritten(@, b, n),
                           !.offered = @ + b,
                           !.taken = @ + n,
                           !.sent = UnderlyingWriteHeader(@, StatusOK) ]]
    /\ UNCHANGED << registryVars, metrics, goVars, unit, proc >>

\* ------------------------------------------------- the mux and its handlers

\* The name each instrument is registered under with promauto.
MetricName ==
    [ RequestCounter |-> "http_requests_total",
      RequestDuration |-> "http_request_duration_seconds",
      RequestSize |-> "http_request_size_bytes",
      ResponseSize |-> "http_response_size_bytes",
      HTTPErrorCounter |-> "http_errors_total",
      ActiveRequestsGauge |-> "http_requests_active",
      BackgroundJobCounter |-> "background_jobs_total",
      BackgroundJobDuration |-> "background_job_duration_seconds",
      BackgroundJobErrorCount |-> "background_job_errors_total",
      APICallCounter |-> "api_calls_total",
      APICallDuration |-> "api_call_duration_seconds",
      APICallErrorCounter |-> "api_call_errors_total",
      FileProcessCounter |-> "file_processes_total",
      FileProcessDuration |-> "file_process_duration_seconds",
      FileProcessBytesCounter |-> "file_process_bytes_total",
      FileProcessErrorCounter |-> "file_process_errors_total" ]

\* What promhttp.Handler writes for the instruments m, as far as the model
\* follows it: the HELP line of every registered instrument, up to its name.
Exposition(m) == { "# HELP " \o MetricName[f] : f \in DOMAIN m }

\* A mux on which every path leads to PongHandler.
RouteAllToPong(path) == "pong"

\* The mux of main: "/metrics" and "/health" are served by their handlers,
\* every other path by the handler registered for "/".
Route(path) ==
    IF path = "/metrics" THEN "metrics"
    ELSE IF path = "/health" THEN "health"
    ELSE "pong"

\* The Content-Type each handler sets; promhttp sets that of the text
\* exposition format.
HandlerContentType ==
    [ pong |-> "text/plain", health |-> "application/json",
      metrics |-> "text/plain; version=0.0.4; charset=utf-8" ]

\* The lines each handler writes.
HandlerBody(handler, m) ==
    IF handler = "pong" THEN { "pong\n" }
    ELSE IF handler = "health" THEN { "{\"status\":\"healthy\"}\n" }
    ELSE Exposition(m)

\* The bytes of the fixed bodies: "pong" and the health document, each with
\* the newline of Fprintln.
PongBytes == 5
HealthBytes == 21

\* The inner handler is main's mux: it routes the request by its path to a
\* handler, which sets its Content-Type, writes status 200 and then its body
\* of b bytes through the wrapper.
MuxServe(r, path, b) ==
    /\ rq[r].pc = "handler"
    /\ rq[r].path = ""
    /\ Route(path) = "pong" => b = PongBytes
    /\ Route(path) = "health" => b = HealthBytes
    /\ rq' = [rq EXCEPT ![r] =
                [ @ EXCEPT !.path = path,
                           !.contentType = HandlerContentType[Route(path)],
                           !.statusCode = CaptureStatus(@, StatusOK),
                           !.firstCode = IF @ = 0 THEN StatusOK ELSE @,
                           !.sent = UnderlyingWriteHeader(@, StatusOK),
                           !.body = HandlerBody(Route(path), metrics),
                           !.written = CountWritten(@, b, b),
                           !.offered = @ + b,
                           !.taken = @ + b ]]
    /\ UNCHANGED << registryVars, metrics, goVars, unit, proc >>

\* The inner handler returns.
HandlerReturn(r) ==
    /\ rq[r].pc = "handler"
    /\ rq' = [rq EXCEPT ![r].pc = "duration"]
    /\ UNCHANGED << registryVars, metrics, goVars, unit, proc >>

\* A completion token called as the middleware's last statement instead of
\* being deferred: a panic passes it by.
UnwindWithoutDefer == "panicked"

\* Where a panic of the inner handler leads: the statements after
\* next.ServeHTTP are skipped, the deferred completion token runs.
Unwind == "deferred"

\* The inner handler panics.
HandlerPanic(r) ==
    /\ rq[r].pc = "handler"
    /\ rq' = [rq EXCEPT ![r] = [ @ EXCEPT !.panicking = TRUE, !.pc = Unwind ]]
    /\ UNCHANGED << registryVars, metrics, goVars, unit, proc >>

\* Lines 87-88: the elapsed time goes into the duration histogram.
ObserveDuration(r) ==
    /\ rq[r].pc = "duration"
    /\ metrics' = [metrics EXCEPT !.RequestDuration = HistogramObserve(@)]
    /\ rq' = [rq EXCEPT ![r].pc = "responseSize"]
    /\ UNCHANGED << registryVars, goVars, unit, proc >>

\* Lines 89-98: the bytes written go into the response-size histogram and
\* the end of the request is logged.
ObserveResponseSize(r) ==
    /\ rq[r].pc = "responseSize"
    /\ metrics' = [metrics EXCEPT !.ResponseSize = HistogramObserve(@)]
    /\ rq' = [rq EXCEPT ![r] = [ @ EXCEPT !.observed = rq[r].written,
                                          !.logs = @ + 1,
                                          !.pc = "errors" ]]
    /\ UNCHANGED << registryVars, goVars, unit, proc >>

\* Lines 101-103: a captured status from 500 on counts as an HTTP error.
RecordHTTPError(r) ==
    /\ rq[r].pc = "errors"
    /\ metrics' = IF IsServerError(rq[r].statusCode)
                  THEN [metrics EXCEPT !.HTTPErrorCounter = CounterInc(@)]
                  ELSE metrics
    /\ rq' = [rq EXCEPT ![r].pc = "deferred"]
    /\ UNCHANGED << registryVars, goVars, unit, proc >>

\* A middleware that recovers the handler's panic and returns normally.
Recovered(panicking) == "done"

\* How ServeHTTP ends once the deferred call has run: the middleware has no
\* recover, a panic goes on to its caller.
ReturnOrPanic(panicking) == IF panicking THEN "panicked" ELSE "done"

\* The deferred completion token: m.ActiveRequestsGauge.Dec(). After it the
\* middleware returns, or the handler's panic goes on to the caller.
CompletionToken(r) ==
    /\ rq[r].pc = "deferred"
    /\ metrics' = [metrics EXCEPT !.ActiveRequestsGauge = GaugeDec(@)]
    /\ rq' = [rq EXCEPT ![r].pc = ReturnOrPanic(rq[r].panicking)]
    /\ UNCHANGED << registryVars, goVars, unit, proc >>

\* What every request goroutine does after its first step.
Serve(r) ==
    \/ RecordRequestCounter(r)
    \/ RecordRequestGauge(r)
    \/ ObserveRequestSize(r)
    \/ HandlerReturn(r)
    \/ HandlerPanic(r)
    \/ ObserveDuration(r)
    \/ ObserveResponseSize(r)
    \/ RecordHTTPError(r)
    \/ CompletionToken(r)

\* ------------------------------------------------------- the direct caller

NoUnit ==
    [ pc |-> "idle", calls |-> 0, preGauge |-> 0, preCounter |-> 0,
      ops |-> 0, last |-> "none", err |-> FALSE, bytes |-> 0,
      sumBytes |-> 0, ctx |-> Background, before |-> "", result |-> "",
      parent |-> Background, attached |-> "" ]

\* RecordRequest as one call: both increments, the token returned. The caller
\* notes the gauge and the counter before the call. A token of an earlier
\* call that was not invoked is dropped.
UnitRecordRequest ==
    /\ unit.calls < MaxRecords
    /\ unit' = [ unit EXCEPT !.pc = "called", !.calls = @ + 1,
                             !.preGauge = metrics.ActiveRequestsGauge,
                             !.preCounter = metrics.RequestCounter ]
    /\ metrics' = [metrics EXCEPT !.RequestCounter = CounterInc(@),
                                  !.ActiveRequestsGauge = GaugeInc(@)]
    /\ UNCHANGED << registryVars, goVars, rq, proc >>

\* The caller invokes the token of its last call, once.
UnitInvokeToken ==
    /\ unit.pc = "called"
    /\ unit' = [unit EXCEPT !.pc = "released"]
    /\ metrics' = [metrics EXCEPT !.ActiveRequestsGauge = GaugeDec(@)]
    /\ UNCHANGED << registryVars, goVars, rq, proc >>

\* A RecordBackgroundJob that counts its failures as API failures.
RecordBackgroundJobIntoAPI(m, err) ==
    [ m EXCEPT !.BackgroundJobCounter = CounterInc(@),
               !.BackgroundJobDuration = HistogramObserve(@),
               !.APICallErrorCounter = IF err THEN CounterInc(@) ELSE @ ]

\* RecordAPICall on the instruments m; err says whether the error is non-nil.
RecordAPICall(m, err) ==
    [ m EXCEPT !.APICallCounter = CounterInc(@),
               !.APICallDuration = HistogramObserve(@),
               !.APICallErrorCounter = IF err THEN CounterInc(@) ELSE @ ]

\* RecordBackgroundJob
RecordBackgroundJob(m, err) ==
    [ m EXCEPT !.BackgroundJobCounter = CounterInc(@),
               !.BackgroundJobDuration = HistogramObserve(@),
               !.BackgroundJobErrorCount = IF err THEN CounterInc(@) ELSE @ ]

\* A RecordFileProcess that reports the bytes of successful calls only.
RecordFileProcessBytesOnSuccess(m, bytes, err) ==
    [ m EXCEPT !.FileProcessCounter = CounterInc(@),
               !.FileProcessDuration = HistogramObserve(@),
               !.FileProcessBytesCounter = IF err THEN @ ELSE CounterAdd(@, bytes),
               !.FileProcessErrorCounter = IF err THEN CounterInc(@) ELSE @ ]

\* RecordFileProcess
RecordFileProcess(m, bytes, err) ==
    [ m EXCEPT !.FileProcessCounter = CounterInc(@),
               !.FileProcessDuration = HistogramObserve(@),
               !.FileProcessBytesCounter = CounterAdd(@, bytes),
               !.FileProcessErrorCounter = IF err THEN CounterInc(@) ELSE @ ]

\* The counters a caller hands to IncError.
ErrorCounters ==
    { "HTTPErrorCounter", "APICallErrorCounter", "BackgroundJobErrorCount",
      "FileProcessErrorCounter" }

\* The caller makes one more call of a recording operation and notes its
\* arguments and the bytes it has reported so far.
UnitNote(op, bytes, err) ==
    /\ unit.ops < MaxOps
    /\ unit' = [ unit EXCEPT !.ops = @ + 1, !.last = op, !.err = err,
                             !.bytes = bytes, !.sumBytes = @ + bytes ]
    /\ UNCHANGED << registryVars, goVars, rq, proc >>

UnitRecordAPICall(err) ==
    /\ UnitNote("api", 0, err)
    /\ metrics' = RecordAPICall(metrics, err)

UnitRecordBackgroundJob(err) ==
    /\ UnitNote("job", 0, err)
    /\ metrics' = RecordBackgroundJob(metrics, err)

UnitRecordFileProcess(bytes, err) ==
    /\ UnitNote("file", bytes, err)
    /\ metrics' = RecordFileProcess(metrics, bytes, err)

\* IncError(counter): counter.Inc()
UnitIncError(counter) ==
    /\ UnitNote("incError", 0, TRUE)
    /\ metrics' = [metrics EXCEPT ![counter] = CounterInc(@)]

\* ctx2 := WithCorrelationID(ctx, id) on the caller's context, which the
\* caller has read with GetCorrelationID before the call and keeps as parent;
\* the caller goes on with ctx2.
UnitWithCorrelationID(id) ==
    /\ Len(unit.ctx) < MaxAttach
    /\ unit' = [ unit EXCEPT !.last = "with",
                             !.attached = id,
                             !.parent = unit.ctx,
                             !.before = GetCorrelationID(unit.ctx),
                             !.ctx = WithCorrelationID(@, id) ]
    /\ UNCHANGED << registryVars, metrics, goVars, rq, proc >>

\* GetOrCreateCorrelationID(ctx) on the caller's context, which the caller
\* has read with GetCorrelationID before the call.
UnitGetOrCreateCorrelationID(e) ==
    /\ unit' = [ unit EXCEPT !.last = "getOrCreate",
                             !.before = GetCorrelationID(unit.ctx),
                             !.result = GetOrCreateCorrelationID(unit.ctx, e) ]
    /\ UNCHANGED << registryVars, metrics, goVars, rq, proc >>

\* ------------------------------------------------------------- the process

\* os.Getenv: the value of a variable that is set, "" for one that is not.
Getenv(env) == IF env.set THEN env.value ELSE ""

\* A main that listens on its default port whatever PORT says.
ListenPortDefaultOnly(port) == "8080"

\* main: port := os.Getenv("PORT"); if port == "" { port = "8080" }
ListenPort(port) == IF port = "" THEN "8080" ELSE port

\* What PORT can be: unset, set to the empty string, set to a port.
Environs ==
    { [set |-> FALSE, value |-> ""], [set |-> TRUE, value |-> ""],
      [set |-> TRUE, value |-> "9090"], [set |-> TRUE, value |-> "3000"] }

\* A process started without PORT that listens on its default address.
DefaultProc == [env |-> [set |-> FALSE, value |-> ""], addr |-> ":8080"]

\* main, after InitMetrics has returned and the mux is wrapped: the server
\* is given the address ":" + port and starts listening.
MainListen ==
    /\ gsynced[1]
    /\ proc.addr = ""
    /\ proc' = [proc EXCEPT !.addr = ":" \o ListenPort(Getenv(proc.env))]
    /\ UNCHANGED << registryVars, metrics, goVars, rq, unit >>

\* ------------------------------------------------------ the registry alone


InitCold ==
    /\ metricsInstance = FALSE
    /\ onceDone = FALSE
    /\ onceLock = 0
    /\ constructions = 0
    /\ metrics = NoMetrics
    /\ gpc = [g \in Goroutines |-> "idle"]
    /\ gcalls = [g \in Goroutines |-> 0]
    /\ gkind = [g \in Goroutines |-> "none"]
    /\ gres = [g \in Goroutines |-> "none"]
    /\ gsynced = [g \in Goroutines |-> FALSE]
    /\ rq = [r \in Reqs |-> NoRequest]
    /\ unit = NoUnit
    /\ proc = DefaultProc

NextInit ==
    \E g \in Goroutines :
        \/ InitCall(g)
        \/ OnceLock(g)
        \/ OnceSlow(g)
        \/ StoreInstance(g)
        \/ OnceSetDone(g)
        \/ OnceUnlock(g)
        \/ InitReturn(g)
        \/ GetMetricsCall(g)

SpecInit == InitCold /\ [][NextInit]_vars

\* (C4) However many InitMetrics calls are made, one after another or
\* concurrently, the function given to once.Do runs at most once, and every
\* call that has returned gave the one instance, never nil and never a panic,
\* with every field of the Metrics struct holding an instrument.
InitMetricsOnce ==
    /\ constructions <= 1
    /\ \A g \in Goroutines :
        (gkind[g] = "init" /\ gpc[g] = "idle") =>
            /\ gres[g] = "instance"
            /\ metricsInstance
            /\ constructions = 1
            /\ DOMAIN metrics = MetricsFields

\* Two goroutines have both returned from InitMetrics, one of them twice.
InitMetricsOnceWitness ==
    /\ \A g \in Goroutines : gkind[g] = "init" /\ gpc[g] = "idle"
    /\ \E g \in Goroutines : gcalls[g] >= 2

\* (C5) A GetMetrics call made while no InitMetrics call has returned panics
\* and leaves the registry as it was.
GetMetricsPanicsBeforeInit ==
    [][\A g \in Goroutines :
        (/\ gkind'[g] = "get"
         /\ gcalls'[g] = gcalls[g] + 1
         /\ \A h \in Goroutines : ~gsynced[h])
        => (/\ gres'[g] = "panic"
            /\ UNCHANGED << registryVars, metrics >>)]_vars

\* ------------------------------------------------------ the serving process

\* main has called InitMetrics (goroutine 1) before the server starts.
InitServing ==
    /\ metricsInstance = TRUE
    /\ onceDone = TRUE
    /\ onceLock = 0
    /\ constructions = 1
    /\ metrics = NewMetrics
    /\ gpc = [g \in Goroutines |-> "idle"]
    /\ gcalls = [g \in Goroutines |-> IF g = 1 THEN 1 ELSE 0]
    /\ gkind = [g \in Goroutines |-> IF g = 1 THEN "init" ELSE "none"]
    /\ gres = [g \in Goroutines |-> IF g = 1 THEN "instance" ELSE "none"]
    /\ gsynced = [g \in Goroutines |-> g = 1]
    /\ rq = [r \in Reqs |-> NoRequest]
    /\ unit = NoUnit
    /\ proc = DefaultProc

\* Concurrent requests without correlation headers and without a body, as
\* TestMiddlewareConcurrency sends them; the handler writes 200 or 500, then
\* its body one byte at a time as that test's handler does, returns or
\* panics. The generated ID plays no part in what the requests share, so one
\* draw stands for all.
Next ==
    \E r \in Reqs :
        \/ Begin(r, "", "", 0, 1)
        \/ Serve(r)
        \/ \E code \in {StatusOK, StatusInternalServerError} :
                HandlerWriteHeader(r, code)
        \/ rq[r].firstCode # 0 /\ HandlerWrite(r, 1, 1)

Spec == InitServing /\ [][Next]_vars

\* One request with any combination of correlation headers, content length,
\* status codes and writes.
\* A header of a request is the list of its values: none when the header is
\* absent, one empty value when it is sent empty.
RequestIDHeaders == { << >>, << "" >>, << "V1" >> }
CorrelationIDHeaders == { << >>, << "" >>, << "V2" >> }

\* http.Header.Get: the first value of the header, "" when it has none.
HeaderGet(values) == IF Len(values) = 0 THEN "" ELSE values[1]

\* What r.Header.Get gives the middleware for X-Request-ID and
\* X-Correlation-ID.
RequestIDs == { HeaderGet(v) : v \in RequestIDHeaders }
CorrelationHeaders == { HeaderGet(v) : v \in CorrelationIDHeaders }
ContentLengths == {0 - 1, 0, 5}
Codes == {StatusOK, 404, StatusInternalServerError, 503}

NextReq ==
    \/ \E id \in RequestIDs, h \in CorrelationHeaders,
          len \in ContentLengths, e \in Entropy : Begin(1, id, h, len, e)
    \/ Serve(1)
    \/ \E code \in Codes : HandlerWriteHeader(1, code)
    \/ \E b \in 0..MaxWritten : \E n \in 0..b : HandlerWrite(1, b, n)

SpecReq == InitServing /\ [][NextReq]_vars

\* Concurrent requests with and without an X-Request-ID, each with its own
\* draw of a generated ID; the handlers write nothing.
NextIDs ==
    \E r \in Reqs :
        \/ \E id \in RequestIDs, e \in Entropy : Begin(r, id, "", 0, e)
        \/ Serve(r)

SpecIDs == InitServing /\ [][NextIDs]_vars

\* The process from its start: PORT is unset, empty or a port; no metrics
\* registry exists and nothing listens yet.
InitMain ==
    /\ metricsInstance = FALSE
    /\ onceDone = FALSE
    /\ onceLock = 0
    /\ constructions = 0
    /\ metrics = NoMetrics
    /\ gpc = [g \in Goroutines |-> "idle"]
    /\ gcalls = [g \in Goroutines |-> 0]
    /\ gkind = [g \in Goroutines |-> "none"]
    /\ gres = [g \in Goroutines |-> "none"]
    /\ gsynced = [g \in Goroutines |-> FALSE]
    /\ rq = [r \in Reqs |-> NoRequest]
    /\ unit = NoUnit
    /\ \E env \in Environs : proc = [env |-> env, addr |-> ""]

\* The paths requested: the three registered ones and one that is not.
Paths == {"/", "/health", "/metrics", "/other"}

\* main (goroutine 1) calls InitMetrics once, wraps its mux and listens; then
\* one request, with or without an X-Request-ID, is served by the wrapped
\* mux. The body promhttp writes has from 1 to MaxWritten bytes.
NextMain ==
    \/ gcalls[1] = 0 /\ InitCall(1)
    \/ OnceLock(1)
    \/ OnceSlow(1)
    \/ StoreInstance(1)
    \/ OnceSetDone(1)
    \/ OnceUnlock(1)
    \/ InitReturn(1)
    \/ MainListen
    \/ proc.addr # "" /\ \E id \in RequestIDs : Begin(1, id, "", 0, 1)
    \/ RecordRequestCounter(1)
    \/ RecordRequestGauge(1)
    \/ ObserveRequestSize(1)
    \/ \E path \in Paths, b \in {PongBytes, HealthBytes} \cup 1..MaxWritten :
            MuxServe(1, path, b)
    \/ rq[1].path # "" /\ HandlerReturn(1)
    \/ ObserveDuration(1)
    \/ ObserveResponseSize(1)
    \/ RecordHTTPError(1)
    \/ CompletionToken(1)

SpecMain == InitMain /\ [][NextMain]_vars

\* A process in which nothing has called InitMetrics yet when requests start
\* to reach the middleware, as in a test that wraps a handler without
\* initializing; goroutine 1 calls InitMetrics at some time. Requests arrive
\* while no InitMetrics call is under way.
NextCold ==
    \/ InitCall(1)
    \/ OnceLock(1)
    \/ OnceSlow(1)
    \/ StoreInstance(1)
    \/ OnceSetDone(1)
    \/ OnceUnlock(1)
    \/ InitReturn(1)
    \/ \E r \in Reqs :
            \/ gpc[1] = "idle" /\ Begin(r, "", "", 0, 1)
            \/ Serve(r)

SpecCold == InitCold /\ [][NextCold]_vars

\* The recording operations called directly, one call after another.
NextUnit ==
    \/ UnitRecordRequest
    \/ UnitInvokeToken

SpecUnit == InitServing /\ [][NextUnit]_vars

\* The recording operations of the other families called directly in any
\* order, with and without an error, with byte counts from 0 to MaxBytes,
\* while one request passes through the middleware.
NextRecord ==
    \/ Begin(1, "", "", 0, 1)
    \/ Serve(1)
    \/ \E code \in {StatusOK, StatusInternalServerError} :
            HandlerWriteHeader(1, code)
    \/ \E err \in BOOLEAN : UnitRecordAPICall(err)
    \/ \E err \in BOOLEAN : UnitRecordBackgroundJob(err)
    \/ \E bytes \in 0..MaxBytes, err \in BOOLEAN :
            UnitRecordFileProcess(bytes, err)
    \/ \E counter \in ErrorCounters : UnitIncError(counter)

SpecRecord == InitServing /\ [][NextRecord]_vars

\* The IDs a caller attaches: the empty string and two others.
AttachedIDs == {"", "A", "B"}

\* The context helpers called directly on a context built up from
\* context.Background().
NextCtx ==
    \/ \E id \in AttachedIDs : UnitWithCorrelationID(id)
    \/ \E e \in Entropy : UnitGetOrCreateCorrelationID(e)

SpecCtx == InitServing /\ [][NextCtx]_vars

\* ------------------------------------------------------------------ claims

\* A request that has run RecordRequest's gauge increment and whose
\* completion token has not run yet.
InFlight(r) ==
    rq[r].pc \in { "requestSize", "handler", "duration", "responseSize",
                   "errors", "deferred" }

\* A request whose processing has ended, by return or by the handler's panic.
Ended(r) == rq[r].pc \in {"done", "panicked"}

\* (C1) The ID on the response follows X-Request-ID > X-Correlation-ID >
\* generated: X-Request-ID's value when it has one, whatever X-Correlation-ID
\* says; else X-Correlation-ID's value when it has one; a generated ID when
\* and only when neither has one.
CorrelationIDPriority ==
    \A r \in Reqs :
        rq[r].pc # "start" =>
            /\ rq[r].requestID # "" => rq[r].responseHeader = rq[r].requestID
            /\ (rq[r].requestID = "" /\ rq[r].correlationHeader # "")
                    => rq[r].responseHeader = rq[r].correlationHeader
            /\ IsGenerated(rq[r].responseHeader)
                    <=> (rq[r].requestID = "" /\ rq[r].correlationHeader = "")

\* A request carrying both headers has been answered.
CorrelationIDPriorityWitness ==
    \E r \in Reqs :
        /\ rq[r].pc = "done"
        /\ rq[r].requestID = "V1"
        /\ rq[r].correlationHeader = "V2"
        /\ rq[r].responseHeader = "V1"

\* (C2) From the moment the middleware has set it, and so on every response,
\* also of a handler that panics or answers 5xx, the X-Correlation-ID response
\* header is non-empty and is the ID the inner handler reads from the
\* request's context with GetCorrelationID.
ResponseHeaderIsContextID ==
    \A r \in Reqs :
        rq[r].pc # "start" =>
            /\ rq[r].responseHeader # ""
            /\ rq[r].responseHeader = GetCorrelationID(rq[r].ctx)

\* A handler wrote 503 and then panicked; the ID came from X-Correlation-ID.
ResponseHeaderIsContextIDWitness ==
    \E r \in Reqs :
        /\ rq[r].pc = "panicked"
        /\ rq[r].sent = 503
        /\ rq[r].responseHeader = "V2"

\* (C6) After RecordRequest the gauge is 1 above and the counter 1 above
\* their values before the call; after one invocation of the returned token
\* the gauge is back at its value before the call and the counter still 1
\* above.
RecordRequestThenToken ==
    /\ unit.pc = "called" =>
            /\ metrics.ActiveRequestsGauge = unit.preGauge + 1
            /\ metrics.RequestCounter = unit.preCounter + 1
    /\ unit.pc = "released" =>
            /\ metrics.ActiveRequestsGauge = unit.preGauge
            /\ metrics.RequestCounter = unit.preCounter + 1

\* A token was invoked after a call made with the gauge already above zero,
\* a token of an earlier call not having been invoked.
RecordRequestThenTokenWitness ==
    /\ unit.pc = "released"
    /\ unit.preGauge = 2
    /\ unit.preCounter = 3

\* (C7) In every state of every interleaving, http_requests_active is the
\* number of requests that have run RecordRequest and whose completion token
\* has not run; so it is never negative, and 0 when no request is in flight.
ActiveGaugeCountsInFlight ==
    /\ metrics.ActiveRequestsGauge = Cardinality({r \in Reqs : InFlight(r)})
    /\ metrics.ActiveRequestsGauge >= 0
    /\ (\A r \in Reqs : ~InFlight(r)) => metrics.ActiveRequestsGauge = 0

\* One request has ended while another is inside its handler.
ActiveGaugeCountsInFlightWitness ==
    /\ \E r \in Reqs : rq[r].pc = "done"
    /\ \E r \in Reqs : rq[r].pc = "handler"
    /\ metrics.ActiveRequestsGauge = 1

\* (C8) However the concurrent requests interleave, http_requests_total is
\* the number of requests that have run its increment, so it is NumReqs when
\* all have ended; every answered request carries a non-empty
\* X-Correlation-ID, and status 200 unless its handler wrote 500.
ConcurrentRequestsAllCounted ==
    /\ metrics.RequestCounter =
            Cardinality({r \in Reqs : rq[r].pc \notin {"start", "record", "aborted"}})
    /\ (\A r \in Reqs : Ended(r)) => metrics.RequestCounter = NumReqs
    /\ \A r \in Reqs :
            rq[r].pc = "done" =>
                /\ rq[r].responseHeader # ""
                /\ rq[r].sent # StatusInternalServerError
                        => ResponseStatus(rq[r].sent) = StatusOK

\* All requests were answered with a written 200.
ConcurrentRequestsAllCountedWitness ==
    /\ \A r \in Reqs : rq[r].pc = "done" /\ rq[r].sent = StatusOK
    /\ metrics.RequestCounter = NumReqs

\* (C9) http_errors_total counts exactly the requests whose handler returned
\* with a captured status code of 500 or more: one increment for each, none
\* for any other request.
ErrorsCountServerErrors ==
    metrics.HTTPErrorCounter =
        Cardinality({r \in Reqs : /\ rq[r].pc \in {"deferred", "done"}
                                  /\ ~rq[r].panicking
                                  /\ rq[r].statusCode >= 500})

\* A request answered with exactly 500 has been counted.
ErrorsCountServerErrorsWitness ==
    /\ \E r \in Reqs : rq[r].pc = "done" /\ rq[r].statusCode = 500
    /\ metrics.HTTPErrorCounter = 1

\* (C10) Once a request has ended, by return or by a panic of its handler,
\* its completion token has run: the gauge counts the other requests in
\* flight only, as before this request's RecordRequest.
TokenRunsOnReturnAndPanic ==
    \A r \in Reqs :
        Ended(r) =>
            metrics.ActiveRequestsGauge =
                Cardinality({q \in Reqs \ {r} : InFlight(q)})

\* A handler has panicked while another request is inside its handler.
TokenRunsOnReturnAndPanicWitness ==
    /\ \E r \in Reqs : rq[r].pc = "panicked"
    /\ \E r \in Reqs : rq[r].pc = "handler"
    /\ metrics.ActiveRequestsGauge = 1

\* A request whose inner handler has returned and whose duration has been
\* observed.
PastDuration(r) ==
    /\ ~rq[r].panicking
    /\ rq[r].pc \in {"responseSize", "errors", "deferred", "done"}

\* A request whose inner handler has returned and whose response size has
\* been observed and end logged.
PastResponseSize(r) ==
    /\ ~rq[r].panicking
    /\ rq[r].pc \in {"errors", "deferred", "done"}

\* No request is between its arrival and its end.
Quiescent == \A r \in Reqs : rq[r].pc \in {"start", "aborted", "done", "panicked"}

\* (C11) The middleware calls the inner handler once per request and never
\* again, and does not swallow its panic: a request whose handler panicked
\* never ends as a normal return of ServeHTTP, it ends with the panic going
\* on to the caller.
HandlerFailurePropagates ==
    \A r \in Reqs :
        /\ rq[r].invoked <= 1
        /\ rq[r].pc \in {"handler", "duration", "responseSize", "errors",
                         "deferred", "done", "panicked"} => rq[r].invoked = 1
        /\ rq[r].pc = "done" => ~rq[r].panicking
        /\ (rq[r].panicking /\ Ended(r)) => rq[r].pc = "panicked"

\* A handler that had written a byte panicked, and the panic left ServeHTTP.
HandlerFailurePropagatesWitness ==
    \E r \in Reqs :
        /\ rq[r].pc = "panicked"
        /\ rq[r].invoked = 1
        /\ rq[r].written = 1

\* (C12) Every request whose inner handler failed, by a panic or by a status
\* of 500 or more, has by its end been counted in http_errors_total and has
\* had its end-of-request line logged after its start line.
HandlerFailureRecorded ==
    \A r \in Reqs :
        (/\ Ended(r)
         /\ rq[r].panicking \/ rq[r].statusCode >= 500)
        => (/\ metrics.HTTPErrorCounter >= 1
            /\ rq[r].logs = 2)

\* (C13) The duration histogram has one sample for each request whose handler
\* has returned and passed line 88, the response-size histogram one for each
\* that passed line 89, the value observed being the wrapper's byte count;
\* with no request under way the two sample counts are equal and at most
\* http_requests_total.
HistogramsObserveOncePerReturn ==
    /\ metrics.RequestDuration = Cardinality({r \in Reqs : PastDuration(r)})
    /\ metrics.ResponseSize = Cardinality({r \in Reqs : PastResponseSize(r)})
    /\ \A r \in Reqs : PastResponseSize(r) => rq[r].observed = rq[r].written
    /\ \A r \in Reqs : ~PastResponseSize(r) => rq[r].observed = 0 - 1
    /\ Quiescent =>
            /\ metrics.RequestDuration = metrics.ResponseSize
            /\ metrics.ResponseSize <= metrics.RequestCounter

\* A request that wrote one byte has returned; both histograms have its
\* sample.
HistogramsObserveOncePerReturnWitness ==
    /\ \E r \in Reqs : rq[r].pc = "done" /\ rq[r].observed = 1
    /\ metrics.RequestDuration = 1
    /\ metrics.ResponseSize = 1
    /\ metrics.RequestCounter = 1

\* (C14) The request-size histogram has one sample for each request with a
\* positive content length that has reached its inner handler, already when
\* the handler is entered, and none for a content length of 0 or -1.
RequestSizeObservedForBodies ==
    metrics.RequestSize =
        Cardinality({r \in Reqs : /\ rq[r].invoked = 1
                                  /\ rq[r].contentLength > 0})

\* A request with content length 5 is entering its handler, which has not
\* acted yet, and its size has been observed.
RequestSizeObservedForBodiesWitness ==
    \E r \in Reqs :
        /\ rq[r].pc = "handler"
        /\ rq[r].contentLength = 5
        /\ rq[r].sent = 0
        /\ rq[r].offered = 0
        /\ metrics.RequestSize = 1

\* (C15) Once the inner handler has called WriteHeader, the status the
\* wrapper holds is the code of the handler's first call, and that code
\* decides the error count of a request whose handler has returned.
FirstStatusRecorded ==
    \A r \in Reqs :
        rq[r].firstCode # 0 =>
            /\ rq[r].statusCode = rq[r].firstCode
            /\ (~rq[r].panicking /\ rq[r].pc \in {"deferred", "done"})
                => (metrics.HTTPErrorCounter >= 1 <=> rq[r].firstCode >= 500)

CounterFields ==
    { "RequestCounter", "HTTPErrorCounter", "BackgroundJobCounter",
      "BackgroundJobErrorCount", "APICallCounter", "APICallErrorCounter",
      "FileProcessCounter", "FileProcessBytesCounter",
      "FileProcessErrorCounter" }

\* The direct caller makes a call of the recording operation op in this step.
Calls(op) == unit'.ops = unit.ops + 1 /\ unit'.last = op

\* (C17) A RecordAPICall call adds 1 to api_calls_total, one sample to
\* api_call_duration_seconds, 1 to api_call_errors_total exactly when its
\* error is non-nil, and leaves every other instrument as it was;
\* RecordBackgroundJob does the same on the three background-job instruments.
RecordCallFamilies ==
    [][/\ Calls("api") =>
            /\ metrics'.APICallCounter = metrics.APICallCounter + 1
            /\ metrics'.APICallDuration = metrics.APICallDuration + 1
            /\ metrics'.APICallErrorCounter =
                    metrics.APICallErrorCounter + (IF unit'.err THEN 1 ELSE 0)
            /\ \A f \in MetricsFields \ { "APICallCounter", "APICallDuration",
                                          "APICallErrorCounter" } :
                    metrics'[f] = metrics[f]
       /\ Calls("job") =>
            /\ metrics'.BackgroundJobCounter = metrics.BackgroundJobCounter + 1
            /\ metrics'.BackgroundJobDuration = metrics.BackgroundJobDuration + 1
            /\ metrics'.BackgroundJobErrorCount =
                    metrics.BackgroundJobErrorCount + (IF unit'.err THEN 1 ELSE 0)
            /\ \A f \in MetricsFields \ { "BackgroundJobCounter",
                                          "BackgroundJobDuration",
                                          "BackgroundJobErrorCount" } :
                    metrics'[f] = metrics[f]]_vars

\* A failed background job has been recorded after a successful API call.
RecordCallFamiliesWitness ==
    /\ unit.last = "job"
    /\ unit.err
    /\ metrics.BackgroundJobCounter = 1
    /\ metrics.BackgroundJobErrorCount = 1
    /\ metrics.APICallCounter = 1
    /\ metrics.APICallErrorCounter = 0

\* (C18) A RecordFileProcess call adds 1 to file_processes_total, one sample
\* to the duration histogram, its bytes to file_process_bytes_total with or
\* without an error, and 1 to file_process_errors_total exactly when its
\* error is non-nil; file_process_bytes_total is always the sum of the bytes
\* of all calls made.
FileProcessRecorded ==
    /\ [](metrics.FileProcessBytesCounter = unit.sumBytes)
    /\ [][Calls("file") =>
            /\ metrics'.FileProcessCounter = metrics.FileProcessCounter + 1
            /\ metrics'.FileProcessDuration = metrics.FileProcessDuration + 1
            /\ metrics'.FileProcessBytesCounter =
                    metrics.FileProcessBytesCounter + unit'.bytes
            /\ metrics'.FileProcessErrorCounter =
                    metrics.FileProcessErrorCounter + (IF unit'.err THEN 1 ELSE 0)]_vars

\* Two files have been processed, the second of 2 bytes with an error.
FileProcessRecordedWitness ==
    /\ unit.last = "file"
    /\ unit.err
    /\ unit.bytes = 2
    /\ metrics.FileProcessCounter = 2
    /\ metrics.FileProcessErrorCounter = 1
    /\ metrics.FileProcessBytesCounter = 3

\* (C19) No step of a recording operation or of a request lowers a counter
\* of the registry.
CountersNeverDecrease ==
    [][\A f \in CounterFields : metrics'[f] >= metrics[f]]_vars

\* The gauge has gone up and down again with a request that was counted as
\* an error, after files of 2 bytes and then of 1 byte were processed.
CountersNeverDecreaseWitness ==
    /\ rq[1].pc = "done"
    /\ metrics.ActiveRequestsGauge = 0
    /\ metrics.RequestCounter = 1
    /\ metrics.HTTPErrorCounter = 1
    /\ unit.last = "file"
    /\ unit.bytes = 1
    /\ metrics.FileProcessBytesCounter = 3

\* (C20) GetOrCreateCorrelationID gives the ID attached to the context when
\* that is not empty, and a generated, non-empty ID when none or an empty
\* one is attached; GetCorrelationID on the context gives after the call
\* what it gave before.
GetOrCreateAttachedOrFresh ==
    unit.last = "getOrCreate" =>
        /\ unit.result # ""
        /\ unit.before # "" => unit.result = unit.before
        /\ unit.before = "" => IsGenerated(unit.result)
        /\ GetCorrelationID(unit.ctx) = unit.before

\* The call was made on a context to which "A" and then the empty ID had
\* been attached.
GetOrCreateAttachedOrFreshWitness ==
    /\ unit.last = "getOrCreate"
    /\ unit.ctx = << "A", "" >>
    /\ IsGenerated(unit.result)

CorrelationIDsNotShared ==
    /\ [](\A r \in Reqs :
            rq[r].pc # "start" =>
                /\ GetCorrelationID(rq[r].ctx) = rq[r].correlationID
                /\ rq[r].responseHeader = rq[r].correlationID
                /\ rq[r].requestID # "" => rq[r].correlationID = rq[r].requestID
                /\ rq[r].requestID = "" => IsGenerated(rq[r].correlationID)
                /\ \A q \in Reqs \ {r} :
                        rq[q].correlationID # rq[r].correlationID =>
                            /\ GetCorrelationID(rq[r].ctx) # rq[q].correlationID
                            /\ rq[r].responseHeader # rq[q].correlationID)
    /\ [][\A r \in Reqs :
            rq[r].pc # "start" =>
                /\ rq'[r].ctx = rq[r].ctx
                /\ rq'[r].responseHeader = rq[r].responseHeader
                /\ rq'[r].correlationID = rq[r].correlationID]_vars

\* Two requests are inside their handlers at once, each with its own
\* generated ID.
CorrelationIDsNotSharedWitness ==
    /\ rq[1].pc = "handler"
    /\ rq[2].pc = "handler"
    /\ GetCorrelationID(rq[1].ctx) = GenerateCorrelationID(1)
    /\ GetCorrelationID(rq[2].ctx) = GenerateCorrelationID(2)
    /\ rq[2].responseHeader = GenerateCorrelationID(2)

\* A request that the mux has routed and whose handler has answered.
Answered(r) == rq[r].path # ""

\* (C23) A request for / is answered with status 200, the body "pong\n" and
\* Content-Type text/plain; one for /health with status 200, the document
\* {"status":"healthy"} and Content-Type application/json; one for /metrics
\* with status 200 and a body that has the HELP line of http_requests_total.
EndpointsAnswer ==
    \A r \in Reqs :
        Answered(r) =>
            /\ ResponseStatus(rq[r].sent) = 200
            /\ rq[r].path = "/" =>
                    /\ rq[r].body = { "pong\n" }
                    /\ rq[r].contentType = "text/plain"
            /\ rq[r].path = "/health" =>
                    /\ "{\"status\":\"healthy\"}\n" \in rq[r].body
                    /\ rq[r].contentType = "application/json"
            /\ rq[r].path = "/metrics" =>
                    "# HELP http_requests_total" \in rq[r].body

\* A request for /health has been answered and has ended.
EndpointsAnswerWitness ==
    \E r \in Reqs :
        /\ rq[r].pc = "done"
        /\ rq[r].path = "/health"
        /\ rq[r].contentType = "application/json"
        /\ rq[r].written = HealthBytes

\* (C24) The server's address is ":" and the value of PORT when PORT is set
\* and not empty, and ":8080" when PORT is unset or empty.
PortFromEnvironment ==
    proc.addr # "" =>
        /\ (proc.env.set /\ proc.env.value # "")
                => proc.addr = ":" \o proc.env.value
        /\ (~proc.env.set \/ proc.env.value = "") => proc.addr = ":8080"

\* The process listens on its default port with PORT set to the empty
\* string.
PortFromEnvironmentWitness ==
    /\ proc.env.set
    /\ proc.env.value = ""
    /\ proc.addr = ":8080"
    /\ gsynced[1]

\* (C27) A request for /metrics leaves http_requests_total,
\* http_requests_active and the three HTTP histograms as they were when the
\* process started to listen.
MetricsScrapeNotInstrumented ==
    \A r \in Reqs :
        rq[r].path = "/metrics" =>
            /\ metrics.RequestCounter = 0
            /\ metrics.ActiveRequestsGauge = 0
            /\ metrics.RequestDuration = 0
            /\ metrics.RequestSize = 0
            /\ metrics.ResponseSize = 0

\* (C25) Within one request each effect of the middleware finds the earlier
\* ones in place: the counters move only once the response carries its ID;
\* the request-size sample and the start log come after both increments; the
\* handler runs with the start logged and the gauge counting its request;
\* the duration sample comes after the handler has returned, the
\* response-size sample after it, the end log after that, the error count
\* after the end log; and the step that takes the gauge down again is the
\* request's last.
MiddlewareEffectsInOrder ==
    /\ [](/\ metrics.RequestCounter >= 1 => rq[1].responseHeader # ""
          /\ metrics.ActiveRequestsGauge >= 1 => metrics.RequestCounter >= 1
          /\ (metrics.RequestSize >= 1 \/ rq[1].logs >= 1)
                => (/\ metrics.RequestCounter = 1
                    /\ metrics.ActiveRequestsGauge = 1 \/ Ended(1))
          /\ rq[1].invoked = 1 =>
                /\ rq[1].logs >= 1
                /\ metrics.RequestSize = IF rq[1].contentLength > 0 THEN 1 ELSE 0
          /\ rq[1].pc = "handler" => metrics.ActiveRequestsGauge = 1
          /\ rq[1].pc = "handler" =>
                /\ metrics.RequestDuration = 0
                /\ metrics.ResponseSize = 0
                /\ rq[1].logs = 1
                /\ metrics.HTTPErrorCounter = 0
          /\ metrics.ResponseSize >= 1 => metrics.RequestDuration = 1
          /\ rq[1].logs = 2 => metrics.ResponseSize = 1
          /\ metrics.HTTPErrorCounter >= 1 => rq[1].logs = 2)
    /\ [][/\ metrics'.RequestDuration > metrics.RequestDuration
                => (rq[1].invoked = 1 /\ rq[1].pc # "handler")
          /\ metrics'.ActiveRequestsGauge < metrics.ActiveRequestsGauge
                => Ended(1)'
          /\ Ended(1) => (metrics' = metrics /\ rq' = rq)]_vars

\* A request with a body whose handler wrote 503 has ended; everything was
\* recorded and the gauge is back at 0.
MiddlewareEffectsInOrderWitness ==
    /\ rq[1].pc = "done"
    /\ rq[1].contentLength = 5
    /\ rq[1].statusCode = 503
    /\ metrics.HTTPErrorCounter = 1
    /\ metrics.RequestSize = 1
    /\ metrics.ActiveRequestsGauge = 0

\* (C29) A handler that has returned without a WriteHeader call, with or
\* without having written a body, leaves the wrapper's status at 200: the end
\* log reports 200 and http_errors_total is not incremented.
DefaultStatusOK ==
    \A r \in Reqs :
        (/\ rq[r].firstCode = 0
         /\ ~rq[r].panicking
         /\ rq[r].pc \in {"duration", "responseSize", "errors", "deferred", "done"})
        => (/\ rq[r].statusCode = 200
            /\ metrics.HTTPErrorCounter = 0)

\* A handler wrote one byte and returned without a WriteHeader call; the
\* request has ended.
DefaultStatusOKWitness ==
    \E r \in Reqs :
        /\ rq[r].pc = "done"
        /\ rq[r].firstCode = 0
        /\ rq[r].written = 1
        /\ rq[r].logs = 2

\* (C30) No choice of correlation headers makes a request fail, and a header
\* without a value counts as no header: without X-Request-ID the response
\* carries X-Correlation-ID's value, without both a generated ID; the ID on
\* the response and in the context is never the empty string.
EmptyHeadersFallBack ==
    \A r \in Reqs :
        rq[r].pc # "start" =>
            /\ rq[r].pc # "aborted"
            /\ rq[r].responseHeader # ""
            /\ GetCorrelationID(rq[r].ctx) # ""
            /\ (rq[r].requestID = HeaderGet(<< "" >>) /\ rq[r].correlationHeader # "")
                    => rq[r].responseHeader = rq[r].correlationHeader
            /\ (/\ rq[r].requestID \in {HeaderGet(<< >>), HeaderGet(<< "" >>)}
                /\ rq[r].correlationHeader \in {HeaderGet(<< >>), HeaderGet(<< "" >>)})
                    => IsGenerated(rq[r].responseHeader)

\* A request without a value in either header has been answered with a
\* generated ID.
EmptyHeadersFallBackWitness ==
    \E r \in Reqs :
        /\ rq[r].pc = "done"
        /\ rq[r].requestID = ""
        /\ rq[r].correlationHeader = ""
        /\ IsGenerated(GetCorrelationID(rq[r].ctx))

\* (C26) A request that reaches the middleware while the registry is
\* uninitialized ends there with a panic: no instrument is changed, the
\* inner handler is not called, nothing is logged, and the request takes no
\* further step.
UninitializedRegistryPanics ==
    /\ [](\A r \in Reqs :
            rq[r].pc = "aborted" =>
                /\ rq[r].panicking
                /\ rq[r].invoked = 0
                /\ rq[r].logs = 0)
    /\ [][\A r \in Reqs :
            /\ (rq[r].pc = "start" /\ rq'[r].pc # "start" /\ ~metricsInstance)
                    => (rq'[r].pc = "aborted" /\ metrics' = metrics)
            /\ rq[r].pc = "aborted" => rq'[r] = rq[r]]_vars

\* One request met the uninitialized registry; after InitMetrics another
\* one has been served and is the only one counted.
UninitializedRegistryPanicsWitness ==
    /\ rq[1].pc = "aborted"
    /\ rq[2].pc = "done"
    /\ metrics.RequestCounter = 1
    /\ metrics.ActiveRequestsGauge = 0

\* (C28) Whatever InitMetrics calls run at the same time, a GetMetrics call
\* that has returned panicked or gave the one instance with all its
\* instruments, never nil and never an instance with unset instruments; and
\* a call made after an InitMetrics call has returned gives the instance.
GetMetricsPanicsOrWhole ==
    /\ [](\A g \in Goroutines :
            (gkind[g] = "get" /\ gpc[g] = "idle") =>
                /\ gres[g] \in {"panic", "instance"}
                /\ gres[g] = "instance" => DOMAIN metrics = MetricsFields)
    /\ [][\A g \in Goroutines :
            (/\ gkind'[g] = "get"
             /\ gcalls'[g] = gcalls[g] + 1
             /\ \E h \in Goroutines : gsynced[h])
            => gres'[g] = "instance"]_vars
====
